---- MODULE Spec2Model ----
(***************************************************************************)
(* foobar_db: the incremental RESP parser (src/protocal/parser.rs) and the *)
(* per-connection pipeline (src/server/client.rs), as state machines.      *)
(*                                                                         *)
(* Bytes are their ASCII codes; buffer positions are 0-based as in the     *)
(* source, so buffer[pos] of the source is buffer[pos + 1] of a sequence.  *)
(***************************************************************************)
EXTENDS Integers, Sequences, FiniteSets, TLC

\* ------------------------------------------------------------ constants
MAX_ITERATIONS == 128
CRLF_LEN == 2
NEXT == 1
NO_REMAINING == 0
CR == 13
LF == 10
PLUS == 43
MINUS == 45
COLON == 58
DOLLAR == 36
STAR == 42
DIGIT_0 == 48
DIGIT_9 == 57

\* ------------------------------------------------------------ bounds
\* Parser::new(max_depth, max_length): the construction parameters.
max_depth == 2
max_length == 2
\* i64::MAX, scaled down so that both sides of the overflow boundary are
\* enumerable; every checked operation below is exact relative to it.
I64_MAX == 12
\* The most read_buf calls one run of the driver makes.
MaxChunks == 2
\* The most try_parse calls one run makes with nothing appended since the last.
MaxRepeats == 1

\* MAX_BATCH_SIZE of client.rs (1024), scaled down so that a batch fills up.
MAX_BATCH_SIZE == 2
\* The most requests a client sends on its connection.
MaxStream == 3

I64_MIN == 0 - I64_MAX - 1

\* ------------------------------------------------------------ RespValue
RespValue(t, some, s, n, elems) ==
    [t |-> t, some |-> some, s |-> s, n |-> n, elems |-> elems]

Null == RespValue("Null", FALSE, <<>>, 0, <<>>)
SimpleString(s) == RespValue("SimpleString", TRUE, s, 0, <<>>)
RespError(s) == RespValue("Error", TRUE, s, 0, <<>>)
Integer(n) == RespValue("Integer", TRUE, <<>>, n, <<>>)
BulkString(s) == RespValue("BulkString", TRUE, s, 0, <<>>)
BulkStringNone == RespValue("BulkString", FALSE, <<>>, 0, <<>>)
Array(elems) == RespValue("Array", TRUE, <<>>, 0, elems)
ArrayNone == RespValue("Array", FALSE, <<>>, 0, <<>>)

\* RespValue::is_none: true of the three null forms.
is_none(v) == v.t = "Null" \/ (v.t \in {"BulkString", "Array"} /\ ~v.some)

\* ------------------------------------------------------------ wire format
RECURSIVE ToDecimal(_)
\* The decimal digits of n >= 0, most significant first.
ToDecimal(n) ==
    IF n < 10 THEN <<DIGIT_0 + n>>
    ELSE Append(ToDecimal(n \div 10), DIGIT_0 + (n % 10))

\* format!("{}", n) of a signed integer.
FormatInt(n) == IF n < 0 THEN <<MINUS>> \o ToDecimal(0 - n) ELSE ToDecimal(n)

CRLF == <<CR, LF>>

RECURSIVE as_bytes(_)
\* The RESP encoding of a value.
as_bytes(v) ==
    CASE v.t = "SimpleString" -> <<PLUS>> \o v.s \o CRLF
      [] v.t = "Error" -> <<MINUS>> \o v.s \o CRLF
      [] v.t = "Integer" -> <<COLON>> \o FormatInt(v.n) \o CRLF
      [] v.t = "Null" -> <<DOLLAR>> \o FormatInt(-1) \o CRLF
      [] v.t = "BulkString" ->
            IF v.some
            THEN <<DOLLAR>> \o FormatInt(Len(v.s)) \o CRLF \o v.s \o CRLF
            ELSE <<DOLLAR>> \o FormatInt(-1) \o CRLF
      [] v.t = "Array" ->
            IF v.some
            THEN LET F[i \in 0..Len(v.elems)] ==
                        IF i = 0 THEN <<>> ELSE F[i - 1] \o as_bytes(v.elems[i])
                 IN  <<STAR>> \o FormatInt(Len(v.elems)) \o CRLF \o F[Len(v.elems)]
            ELSE <<STAR>> \o FormatInt(-1) \o CRLF

\* ------------------------------------------------------------ ParseState
NoState ==
    [k |-> "", pos |-> 0, value |-> 0, negative |-> FALSE, type_char |-> 0,
     start_pos |-> 0, remaining |-> 0, total |-> 0, current |-> 0,
     elements |-> <<>>, error |-> "", val |-> Null]

Index(pos) == [NoState EXCEPT !.k = "Index", !.pos = pos]
ReadingLength(pos, value, negative, type_char) ==
    [NoState EXCEPT !.k = "ReadingLength", !.pos = pos, !.value = value,
                    !.negative = negative, !.type_char = type_char]
ReadingBulkString(start_pos, remaining) ==
    [NoState EXCEPT !.k = "ReadingBulkString", !.start_pos = start_pos,
                    !.remaining = remaining]
ReadingSimpleString(pos) == [NoState EXCEPT !.k = "ReadingSimpleString", !.pos = pos]
ReadingError(pos) == [NoState EXCEPT !.k = "ReadingError", !.pos = pos]
ReadingInteger(pos) == [NoState EXCEPT !.k = "ReadingInteger", !.pos = pos]
ReadingArray(pos, total, current, elements) ==
    [NoState EXCEPT !.k = "ReadingArray", !.pos = pos, !.total = total,
                    !.current = current, !.elements = elements]
StateError(e) == [NoState EXCEPT !.k = "Error", !.error = e]
Complete(v) == [NoState EXCEPT !.k = "Complete", !.val = v]

\* ParseResult
OkSome(v) == [tag |-> "Some", val |-> v, err |-> ""]
OkNone == [tag |-> "None", val |-> Null, err |-> ""]
Err(e) == [tag |-> "Err", val |-> Null, err |-> e]

\* ------------------------------------------------------------ Parser
\* Parser::new
NewParser == [buffer |-> <<>>, state |-> Index(0), nested_stack |-> <<>>]

\* self.buffer.get(pos): the byte, or -1 for None.
Get(buffer, pos) == IF pos < Len(buffer) THEN buffer[pos + 1] ELSE -1

\* self.buffer[from..to]
Slice(buffer, from, to) == SubSeq(buffer, from + 1, to)

\* find_crlf: the first position >= start holding CR LF, or -1 for None.
find_crlf(buffer, start) ==
    LET hits == {q \in start..(Len(buffer) - 2) :
                    buffer[q + 1] = CR /\ buffer[q + 2] = LF}
    IN  IF hits = {} THEN -1 ELSE CHOOSE q \in hits : \A r \in hits : q <= r

\* handle_index stepping over a byte that is no type marker.
handle_index_skipping(buffer, index) ==
    IF index >= Len(buffer) THEN Index(index)
    ELSE LET b == buffer[index + 1] IN
         CASE b = PLUS -> ReadingSimpleString(index + 1)
           [] b = MINUS -> ReadingError(index + 1)
           [] b = COLON -> ReadingInteger(index + 1)
           [] b = DOLLAR -> ReadingLength(index + 1, 0, FALSE, DOLLAR)
           [] b = STAR -> ReadingLength(index + 1, 0, FALSE, STAR)
           [] OTHER -> Index(index + 1)

handle_index(buffer, index) ==
    IF index >= Len(buffer) THEN Index(index)
    ELSE LET b == buffer[index + 1] IN
         CASE b = PLUS -> ReadingSimpleString(index + 1)
           [] b = MINUS -> ReadingError(index + 1)
           [] b = COLON -> ReadingInteger(index + 1)
           [] b = DOLLAR -> ReadingLength(index + 1, 0, FALSE, DOLLAR)
           [] b = STAR -> ReadingLength(index + 1, 0, FALSE, STAR)
           [] OTHER -> StateError("InvalidFormat:Invalid type marker")

\* checked_accumulate with wrapping in place of checked arithmetic.
wrapping_accumulate(value, negative, digit) ==
    LET m == value * 10
        r == IF negative THEN m - digit ELSE m + digit
    IN  [some |-> TRUE, v |-> ((r - I64_MIN) % (2 * I64_MAX + 2)) + I64_MIN]

\* value.checked_mul(10).and_then(checked_sub / checked_add digit):
\* Some(v), or None when either step leaves the i64 range.
checked_accumulate(value, negative, digit) ==
    LET m == value * 10
        r == IF negative THEN m - digit ELSE m + digit
    IN  IF m < I64_MIN \/ m > I64_MAX THEN [some |-> FALSE, v |-> 0]
        ELSE IF r < I64_MIN \/ r > I64_MAX THEN [some |-> FALSE, v |-> 0]
        ELSE [some |-> TRUE, v |-> r]

\* handle_length taking every negative length for the null marker.
handle_length_negative_is_null(buffer, pos, value, negative, type_char) ==
    LET b == Get(buffer, pos) IN
    IF b = -1 THEN StateError("UnexpectedEof")
    ELSE IF b >= DIGIT_0 /\ b <= DIGIT_9 THEN
        LET new_value == checked_accumulate(value, negative, b - DIGIT_0) IN
        IF ~new_value.some THEN StateError("Overflow")
        ELSE ReadingLength(pos + 1, new_value.v, negative, type_char)
    ELSE IF b = MINUS THEN ReadingLength(pos + 1, value, TRUE, type_char)
    ELSE IF b = CR THEN
        IF Get(buffer, pos + 1) = LF THEN
            CASE type_char = DOLLAR ->
                    IF value < 0 THEN Complete(Null)
                    ELSE ReadingBulkString(pos + 2, value)
              [] type_char = STAR ->
                    IF value < 0 THEN Complete(ArrayNone)
                    ELSE ReadingArray(pos + 2, value, 0, <<>>)
              [] type_char = COLON -> Complete(Integer(value))
              [] OTHER -> StateError("InvalidFormat:Invalid length type")
        ELSE StateError("InvalidFormat:Expected \\n after \\r")
    ELSE StateError("InvalidFormat:Invalid character in length")

handle_length(buffer, pos, value, negative, type_char) ==
    LET b == Get(buffer, pos) IN
    IF b = -1 THEN StateError("UnexpectedEof")
    ELSE IF b >= DIGIT_0 /\ b <= DIGIT_9 THEN
        LET new_value == checked_accumulate(value, negative, b - DIGIT_0) IN
        IF ~new_value.some THEN StateError("Overflow")
        ELSE ReadingLength(pos + 1, new_value.v, negative, type_char)
    ELSE IF b = MINUS THEN ReadingLength(pos + 1, value, TRUE, type_char)
    ELSE IF b = CR THEN
        IF Get(buffer, pos + 1) = LF THEN
            CASE type_char = DOLLAR ->
                    IF value = -1 THEN Complete(Null)
                    ELSE IF value < 0 THEN StateError("InvalidLength")
                    ELSE ReadingBulkString(pos + 2, value)
              [] type_char = STAR ->
                    IF value = -1 THEN Complete(ArrayNone)
                    ELSE IF value < 0 THEN StateError("InvalidLength")
                    ELSE ReadingArray(pos + 2, value, 0, <<>>)
              [] type_char = COLON -> Complete(Integer(value))
              [] OTHER -> StateError("InvalidFormat:Invalid length type")
        ELSE StateError("InvalidFormat:Expected \\n after \\r")
    ELSE StateError("InvalidFormat:Invalid character in length")

\* String::from_utf8 succeeds (the inputs here are ASCII, one byte per char).
IsUtf8(bytes) == \A i \in 1..Len(bytes) : bytes[i] < 128

\* handle_bulk_string with the max_length check made only once the payload is there.
handle_bulk_string_late_check(buffer, start_pos, remaining) ==
    IF remaining = NO_REMAINING THEN Complete(BulkStringNone)
    ELSE IF Len(buffer) < start_pos + remaining + CRLF_LEN
    THEN StateError("NotEnoughData")
    ELSE IF remaining > max_length THEN StateError("InvalidLength")
    ELSE IF Get(buffer, start_pos + remaining) # CR
            \/ Get(buffer, start_pos + remaining + NEXT) # LF
    THEN StateError("InvalidFormat:Missing CRLF")
    ELSE Complete(BulkString(Slice(buffer, start_pos, start_pos + remaining)))

handle_bulk_string(buffer, start_pos, remaining) ==
    IF remaining > max_length THEN StateError("InvalidLength")
    ELSE IF remaining = NO_REMAINING THEN Complete(BulkStringNone)
    ELSE LET required_len == start_pos + remaining + CRLF_LEN IN
         IF Len(buffer) < required_len THEN StateError("NotEnoughData")
         ELSE IF Get(buffer, start_pos + remaining) # CR
                 \/ Get(buffer, start_pos + remaining + NEXT) # LF
         THEN StateError("InvalidFormat:Missing CRLF")
         ELSE LET content == Slice(buffer, start_pos, start_pos + remaining) IN
              IF IsUtf8(content) THEN Complete(BulkString(content))
              ELSE StateError("InvalidFormat:Invalid UTF-8")

\* handle_array: the next state and the frame stack it leaves.
handle_array(nested_stack, pos, total, current, elements) ==
    IF total = 0 THEN [next |-> Complete(Array(elements)), nested_stack |-> nested_stack]
    ELSE IF current >= total
    THEN [next |-> Complete(Array(elements)), nested_stack |-> nested_stack]
    ELSE [next |-> Index(pos),
          nested_stack |-> Append(nested_stack,
                                  ReadingArray(pos, total, current, elements))]

handle_simple_string(buffer, pos) ==
    LET end_pos == find_crlf(buffer, pos) IN
    IF end_pos = -1 THEN StateError("UnexpectedEof")
    ELSE Complete(SimpleString(Slice(buffer, pos, end_pos)))

handle_error(buffer, pos) ==
    LET end_pos == find_crlf(buffer, pos) IN
    IF end_pos = -1 THEN StateError("UnexpectedEof")
    ELSE Complete(RespError(Slice(buffer, pos, end_pos)))

RECURSIVE IntegerLoop(_, _, _, _, _)
\* The for loop of handle_integer over buffer[start..end_pos].
IntegerLoop(buffer, at, end_pos, value, negative) ==
    IF at >= end_pos THEN Complete(Integer(value))
    ELSE LET b == buffer[at + 1] IN
         IF b >= DIGIT_0 /\ b <= DIGIT_9 THEN
            LET v == checked_accumulate(value, negative, b - DIGIT_0) IN
            IF ~v.some THEN StateError("Overflow")
            ELSE IntegerLoop(buffer, at + 1, end_pos, v.v, negative)
         ELSE StateError("InvalidFormat:Invalid integer format")

\* handle_integer accumulating the magnitude and negating it at the end.
handle_integer_negate_last(buffer, pos) ==
    LET end_pos == find_crlf(buffer, pos) IN
    IF end_pos = -1 THEN StateError("UnexpectedEof")
    ELSE LET negative == Get(buffer, pos) = MINUS
             start == IF negative THEN pos + 1 ELSE pos
             r == IntegerLoop(buffer, start, end_pos, 0, FALSE)
         IN  IF r.k = "Complete" /\ negative
             THEN Complete(Integer(0 - r.val.n))
             ELSE r

handle_integer(buffer, pos) ==
    LET end_pos == find_crlf(buffer, pos) IN
    IF end_pos = -1 THEN StateError("UnexpectedEof")
    ELSE LET negative == Get(buffer, pos) = MINUS
             start == IF negative THEN pos + 1 ELSE pos
         IN  IntegerLoop(buffer, start, end_pos, 0, negative)

\* The match on self.state of try_parse: next_state and the stack after it.
Dispatch(p) ==
    LET s == p.state
        keep(next) == [next |-> next, nested_stack |-> p.nested_stack]
    IN  CASE s.k = "Index" -> keep(handle_index(p.buffer, s.pos))
          [] s.k = "ReadingArray" ->
                handle_array(p.nested_stack, s.pos, s.total, s.current, s.elements)
          [] s.k = "ReadingLength" ->
                keep(handle_length(p.buffer, s.pos, s.value, s.negative, s.type_char))
          [] s.k = "ReadingBulkString" ->
                keep(handle_bulk_string(p.buffer, s.start_pos, s.remaining))
          [] s.k = "ReadingSimpleString" -> keep(handle_simple_string(p.buffer, s.pos))
          [] s.k = "ReadingError" -> keep(handle_error(p.buffer, s.pos))
          [] s.k = "ReadingInteger" -> keep(handle_integer(p.buffer, s.pos))
          [] OTHER -> keep(s)

\* The Complete(Some(value)) arm once the top frame has all its elements, or
\* with no frame open: pop, hand the array to the next-outer frame's elements,
\* reset on a non-null value, return the value.
CompleteReturn(p, stack, value) ==
    LET reset == ~is_none(value) IN
    [p |-> [buffer |-> IF reset THEN <<>> ELSE p.buffer,
            state |-> IF reset THEN Index(0) ELSE p.state,
            nested_stack |-> stack],
     res |-> OkSome(value)]

RECURSIVE try_parse_loop(_, _)
\* The loop of try_parse entered with `iterations` passes already made:
\* the parser it leaves and the result it returns.
try_parse_loop(p, iterations) ==
    IF iterations + 1 > MAX_ITERATIONS
    THEN [p |-> p, res |-> Err("InvalidFormat:Maximum parsing iterations exceeded")]
    ELSE
    LET d == Dispatch(p)
        next_state == d.next
        stack == d.nested_stack
        depth == Len(stack)
    IN  CASE next_state = p.state /\ stack = p.nested_stack ->
                \* A pass that changes nothing (Index at the end of the buffer):
                \* every later pass is the same one, until the fuse ends the call.
                [p |-> p, res |-> Err("InvalidFormat:Maximum parsing iterations exceeded")]
          [] next_state.k = "Complete" ->
                LET value == next_state.val IN
                IF depth > 0
                THEN LET top == stack[depth]
                         elements == Append(top.elements, value)
                     IN  IF top.current + 1 < top.total
                         THEN try_parse_loop(
                                [p EXCEPT !.nested_stack =
                                    [stack EXCEPT ![depth] =
                                        [top EXCEPT !.elements = elements,
                                                    !.current = top.current + 1]]],
                                iterations + 1)
                         ELSE LET completed_array == Array(elements)
                                  popped == SubSeq(stack, 1, depth - 1)
                                  outer ==
                                    IF depth > 1
                                    THEN [popped EXCEPT ![depth - 1].elements =
                                            Append(popped[depth - 1].elements,
                                                   completed_array)]
                                    ELSE popped
                              IN  CompleteReturn(p, outer, value)
                ELSE CompleteReturn(p, stack, value)
          [] next_state.k = "Error" ->
                [p |-> [p EXCEPT !.state = Index(0), !.nested_stack = stack],
                 res |-> Err(next_state.error)]
          [] OTHER ->
                try_parse_loop([p EXCEPT !.state = next_state, !.nested_stack = stack],
                               iterations + 1)

try_parse(p) == try_parse_loop(p, 0)

\* read_buf
read_buf(p, buf) == [p EXCEPT !.buffer = p.buffer \o buf]

\* ------------------------------------------------------------ inputs
LeafValues ==
    {SimpleString(<<97>>), SimpleString(<<>>), RespError(<<97>>),
     Integer(0), Integer(-1), Integer(I64_MAX), Integer(I64_MIN),
     BulkString(<<>>), BulkString(<<97, 98>>), BulkStringNone, Null,
     ArrayNone, Array(<<>>)}

ElemValues == {SimpleString(<<97>>), Integer(1), BulkString(<<98>>)}

FlatArrays ==
    {Array(<<x>>) : x \in ElemValues} \cup
    {Array(<<x, y>>) : x \in ElemValues, y \in ElemValues}

NestedArrays ==
    {Array(<<Array(<<x>>)>>) : x \in ElemValues} \cup
    {Array(<<Array(<<x>>), y>>) : x \in {SimpleString(<<97>>)}, y \in ElemValues} \cup
    {Array(<<x, Array(<<y>>)>>) : x \in {Integer(1)}, y \in ElemValues}

RECURSIVE Nest(_, _)
\* v wrapped in n one-element arrays.
Nest(n, v) == IF n = 0 THEN v ELSE Array(<<Nest(n - 1, v)>>)

\* The well-formed values within the parser's limits.
Values == LeafValues \cup FlatArrays \cup NestedArrays

FirstFrames == {SimpleString(<<97>>), Integer(1), BulkString(<<98>>), Null,
                Array(<<Integer(1)>>)}

\* What a run is given: the bytes the peer sends and what they encode.
\* v1, v2: the values of a "frame" / "two" / "deep" input; n: the number of a
\* numeric field; hdr: the offset just past the header of a "bulkhdr" input.
Input(kind, wire, v1, v2, n, hdr) ==
    [kind |-> kind, wire |-> wire, v1 |-> v1, v2 |-> v2, n |-> n, hdr |-> hdr]

\* Numbers on both sides of the i64 boundaries.
FieldNumbers ==
    ((I64_MIN - 2)..(I64_MIN + 1)) \cup ((I64_MAX - 1)..(I64_MAX + 2))
    \cup {I64_MAX * 10} \cup {-3, -2}

\* A numeric field: its type byte, the number, CRLF.
Field(type_char, n) == <<type_char>> \o FormatInt(n) \o CRLF

ArrayOfOne == <<STAR>> \o FormatInt(1) \o CRLF

\* Fields with a '-' after a digit: "$0-1", "*0-1", "$1-2", ":1-2", ":0-1".
SignAfterDigit ==
    {<<tc, DIGIT_0 + a, MINUS, DIGIT_0 + b>> \o CRLF :
        tc \in {DOLLAR, STAR, COLON}, a \in {0, 1}, b \in {0, 1, 2}}
\* Fields with no digit: "$", "*", ":", and the same with a lone sign.
NoDigits ==
    {<<tc>> \o sign \o CRLF : tc \in {DOLLAR, STAR, COLON}, sign \in {<<>>, <<MINUS>>}}
\* Bytes that are no type marker: 'x', '0', CR.
BadMarkers == {120, DIGIT_0, CR}
\* A bad marker where a value starts: at the top level, or as an array element.
BadPrefixes ==
    {pre \o <<b>> \o rest : pre \in {<<>>, ArrayOfOne}, b \in BadMarkers,
                            rest \in {<<>>, <<DIGIT_0 + 1>> \o CRLF}}

Inputs ==
    {Input("sign", w, Null, Null, 0, 0) : w \in SignAfterDigit}
    \cup
    {Input("empty", w, Null, Null, 0, 0) : w \in NoDigits}
    \cup
    {Input("prefix", w, Null, Null, 0, 0) : w \in BadPrefixes}
    \cup
    {Input("frame", as_bytes(v), v, Null, 0, 0) : v \in Values}
    \cup
    {Input("two", as_bytes(a) \o as_bytes(b), a, b, 0, 0) :
        a \in FirstFrames, b \in FirstFrames}
    \cup
    {Input("deep", as_bytes(Nest(max_depth + 1, x)), Nest(max_depth + 1, x), Null, 0, 0) :
        x \in {SimpleString(<<97>>)}}
    \cup
    {Input("num", Field(tc, n), Null, Null, n, 0) :
        tc \in {DOLLAR, STAR, COLON}, n \in FieldNumbers}
    \cup
    {Input("num", Field(COLON, n), Null, Null, n, 0) : n \in I64_MIN..I64_MAX}
    \cup
    {Input("num", ArrayOfOne \o Field(tc, n), Null, Null, n, 0) :
        tc \in {DOLLAR, COLON}, n \in {I64_MIN - 1, I64_MIN, I64_MAX, I64_MAX + 1}}
    \cup
    {Input("bulkhdr", pre \o Field(DOLLAR, n) \o pay, Null, Null, n,
           Len(pre) + Len(Field(DOLLAR, n))) :
        pre \in {<<>>, ArrayOfOne},
        n \in {max_length + 1, max_length + 2, I64_MAX},
        pay \in {<<>>, <<97>>}}

\* ------------------------------------------------------------ Command
\* ASCII spellings.
GET == <<71, 69, 84>>
SET == <<83, 69, 84>>
DEL == <<68, 69, 76>>
LPUSH == <<76, 80, 85, 83, 72>>
PING == <<80, 73, 78, 71>>
INFO == <<73, 78, 70, 79>>
COMMAND == <<67, 79, 77, 77, 65, 78, 68>>
OK == <<79, 75>>
PONG == <<80, 79, 78, 71>>
\* "foobardb_version:1.0.0\r\nmode:standalone"
INFO_REPLY ==
    <<102, 111, 111, 98, 97, 114, 100, 98, 95, 118, 101, 114, 115, 105, 111, 110, 58,
      49, 46, 48, 46, 48, 13, 10, 109, 111, 100, 101, 58, 115, 116, 97, 110, 100, 97,
      108, 111, 110, 101>>

\* Lower-case verbs left as they are.
keep_case(s) == s

\* A null bulk string taken for a string.
IsStringOrNullBulk(v) == v.t \in {"BulkString", "SimpleString"}

\* A set that keeps the value already stored.
storage_set_if_absent(data, key, value) ==
    [x \in DOMAIN data \cup {key} |-> IF x \in DOMAIN data THEN data[x] ELSE value]

\* A set into a map of its own: the keys stored before are gone.
storage_set_alone(data, key, value) == [x \in {key} |-> value]

\* A delete of the first key only.
db_delete_first(data, keys) ==
    IF keys = <<>> THEN data
    ELSE [x \in DOMAIN data \ {Head(keys)} |-> data[x]]

\* str::to_uppercase on ASCII text.
to_uppercase(s) ==
    [i \in 1..Len(s) |-> IF s[i] >= 97 /\ s[i] <= 122 THEN s[i] - 32 ELSE s[i]]

NoCommand == [c |-> "", key |-> <<>>, value |-> <<>>, keys |-> <<>>, command |-> <<>>]
CmdOk(cmd) == [ok |-> TRUE, cmd |-> cmd, err |-> ""]
CmdErr(e) == [ok |-> FALSE, cmd |-> NoCommand, err |-> e]

\* The value is a BulkString(Some) or a SimpleString: what extract_string accepts.
IsString(v) == (v.t = "BulkString" /\ v.some) \/ v.t = "SimpleString"

\* Command::from_resp
from_resp(resp) ==
    IF ~(resp.t = "Array" /\ resp.some) THEN CmdErr("InvalidCommandName")
    ELSE LET array == resp.elems IN
    IF array = <<>> THEN CmdErr("EmptyCommand")
    ELSE IF ~IsString(array[1]) THEN CmdErr("InvalidCommandName")
    ELSE LET command_name == to_uppercase(array[1].s)
             args_ok == \A i \in 2..Len(array) : IsString(array[i])
         IN
         CASE command_name = GET ->
                IF Len(array) # 2 THEN CmdErr("WrongNumberOfArguments:get")
                ELSE IF ~IsString(array[2]) THEN CmdErr("InvalidArgumentType")
                ELSE CmdOk([NoCommand EXCEPT !.c = "Get", !.key = array[2].s])
           [] command_name = SET ->
                IF Len(array) # 3 THEN CmdErr("WrongNumberOfArguments:set")
                ELSE IF ~args_ok THEN CmdErr("InvalidArgumentType")
                ELSE CmdOk([NoCommand EXCEPT !.c = "Set", !.key = array[2].s,
                                             !.value = array[3].s])
           [] command_name = DEL ->
                IF Len(array) < 2 THEN CmdErr("WrongNumberOfArguments:del")
                ELSE IF ~args_ok THEN CmdErr("InvalidArgumentType")
                ELSE CmdOk([NoCommand EXCEPT !.c = "Del",
                               !.keys = [i \in 1..(Len(array) - 1) |-> array[i + 1].s]])
           [] command_name = LPUSH ->
                IF Len(array) < 3 THEN CmdErr("WrongNumberOfArguments:lpush")
                ELSE IF ~args_ok THEN CmdErr("InvalidArgumentType")
                ELSE CmdOk([NoCommand EXCEPT !.c = "LPush", !.key = array[2].s,
                               !.keys = [i \in 1..(Len(array) - 2) |-> array[i + 2].s]])
           [] command_name = PING -> CmdOk([NoCommand EXCEPT !.c = "Ping"])
           [] command_name = INFO -> CmdOk([NoCommand EXCEPT !.c = "Info"])
           [] command_name = COMMAND -> CmdOk([NoCommand EXCEPT !.c = "Command"])
           [] OTHER -> CmdOk([NoCommand EXCEPT !.c = "Unknown", !.command = command_name])

\* DashMapStorage: a map from the keys present to their values.
storage_get(data, key) == IF key \in DOMAIN data THEN data[key] ELSE Null
storage_set(data, key, value) ==
    [x \in DOMAIN data \cup {key} |-> IF x = key THEN value ELSE data[x]]
storage_delete(data, key) == [x \in DOMAIN data \ {key} |-> data[x]]

\* Option<V>
OptNone == [some |-> FALSE, v |-> Null, n |-> 0]
OptSome(v) == [some |-> TRUE, v |-> v, n |-> 0]
\* A usize, and ().
Count(n) == [some |-> FALSE, v |-> Null, n |-> n]
Unit == Count(0)

\* An insert that hands back the value it stored.
insert_returns_new(data, key, value) ==
    [data |-> storage_set(data, key, value), ret |-> OptSome(value)]

\* impl Storage for DashMapStorage: the map a call leaves and what it returns.
\* Each call is one DashMap operation, made under the lock of the key's shard.
DashMapStorage_get(data, key) ==
    [data |-> data,
     ret |-> IF key \in DOMAIN data THEN OptSome(data[key]) ELSE OptNone]
DashMapStorage_set(data, key, value) ==
    [data |-> storage_set(data, key, value), ret |-> DashMapStorage_get(data, key).ret]
DashMapStorage_delete(data, key) ==
    [data |-> storage_delete(data, key), ret |-> DashMapStorage_get(data, key).ret]
DashMapStorage_clear(data) == [data |-> <<>>, ret |-> Unit]
DashMapStorage_len(data) == [data |-> data, ret |-> Count(Cardinality(DOMAIN data))]

RECURSIVE db_delete(_, _)
\* DB::delete: every key of the list, in order.
db_delete(data, keys) ==
    IF keys = <<>> THEN data
    ELSE db_delete(storage_delete(data, Head(keys)), Tail(keys))

\* A failed command answered with the null reply in place of an error line.
ErrReplyAsNull(kind, name) == Null

\* The reply written for a failed command: "-ERR <message>"; the message is
\* kept as its kind and the name it quotes.
ErrReply(kind, name) == RespError(<<"ERR", kind, name>>)

\* Command::exec followed by the match of execute_batch on its result:
\* the store it leaves and the response that is serialized.
exec(cmd, data) ==
    CASE cmd.c = "Get" -> [data |-> data, resp |-> storage_get(data, cmd.key)]
      [] cmd.c = "Set" ->
            [data |-> storage_set(data, cmd.key, BulkString(cmd.value)),
             resp |-> SimpleString(OK)]
      [] cmd.c = "Del" -> [data |-> db_delete(data, cmd.keys), resp |-> SimpleString(OK)]
      [] cmd.c = "Ping" -> [data |-> data, resp |-> SimpleString(PONG)]
      [] cmd.c = "Unknown" ->
            [data |-> data, resp |-> ErrReply("unknown command", cmd.command)]
      [] cmd.c = "Info" -> [data |-> data, resp |-> BulkString(INFO_REPLY)]
      [] cmd.c = "Command" -> [data |-> data, resp |-> SimpleString(OK)]
      [] OTHER -> [data |-> data, resp |-> ErrReply("command not implemented", <<>>)]

\* "-ERR ", "unknown command '", "'", "command not implemented"
ERR_PREFIX == <<45, 69, 82, 82, 32>>
UNKNOWN_COMMAND_OPEN ==
    <<117, 110, 107, 110, 111, 119, 110, 32, 99, 111, 109, 109, 97, 110, 100, 32, 39>>
QUOTE == <<39>>
NOT_IMPLEMENTED ==
    <<99, 111, 109, 109, 97, 110, 100, 32, 110, 111, 116, 32, 105, 109, 112, 108, 101,
      109, 101, 110, 116, 101, 100>>

\* Display for CommandError, for the two kinds exec fails with.
Display(kind, name) ==
    IF kind = "unknown command" THEN UNKNOWN_COMMAND_OPEN \o name \o QUOTE
    ELSE NOT_IMPLEMENTED

\* The bytes execute_batch appends for one result: resp.as_bytes() for Ok(resp),
\* format!("-ERR {}\r\n", e) for Err(e).
reply_bytes(resp) ==
    IF resp.t = "Error"
    THEN ERR_PREFIX \o Display(resp.s[2], resp.s[3]) \o CRLF
    ELSE as_bytes(resp)

\* The results of a batch handed back newest first.
results_newest_first(results, completed) ==
    [i \in 1..Len(results) |-> results[Len(results) + 1 - i]]

\* join_all and the loop over its results: the responses of the batch in the
\* order the commands were submitted.
results_in_order(results, completed) == [i \in 1..Len(results) |-> results[i]]

\* The positions of the batch whose future has not completed.
Pending(futures, completed) ==
    {i \in 1..Len(futures) : i \notin {completed[j] : j \in 1..Len(completed)}}

\* A join that polls the future pushed last first.
join_all_newest_first(futures, completed) ==
    CHOOSE i \in Pending(futures, completed) :
        \A j \in Pending(futures, completed) : j <= i

\* join_all polls its futures in the order they were pushed, and the future
\* of Command::exec holds no await: polled once, it runs to its end. The
\* position that runs next is the first one still pending.
join_all_next(futures, completed) ==
    CHOOSE i \in Pending(futures, completed) :
        \A j \in Pending(futures, completed) : i <= j

\* ------------------------------------------------------------ requests
Bulk(s) == BulkString(s)
Request(words) == Array([i \in 1..Len(words) |-> Bulk(words[i])])

\* Bytes that are no RESP frame: try_parse fails on them with a terminal error.
MalformedFrame == RespValue("Malformed", FALSE, <<>>, 0, <<>>)

Requests ==
    {Request(<<SET, <<107>>, <<118>>>>),      \* SET k v
     Request(<<GET, <<107>>>>),               \* GET k
     Request(<<DEL, <<107>>>>),               \* DEL k
     Request(<<<<97>>>>),                     \* a: an unknown verb
     Request(<<<<112, 105, 110, 103>>>>),     \* ping
     Request(<<GET>>),                        \* GET with no key
     Request(<<LPUSH, <<107>>, <<118>>>>),    \* LPUSH k v
     MalformedFrame}

RECURSIVE StreamsOf(_, _)
\* The sequences of at most n items of R.
StreamsOf(R, n) ==
    IF n = 0 THEN {<<>>}
    ELSE LET shorter == StreamsOf(R, n - 1) IN
         shorter \cup {Append(q, r) : q \in {x \in shorter : Len(x) = n - 1}, r \in R}

\* The request streams of at most n requests.
Streams(n) == StreamsOf(Requests, n)

\* ------------------------------------------------------------ store and verb requests
\* Two keys and two values: "k", "j", "v", "w".
KEY_K == <<107>>
KEY_J == <<106>>
VAL_V == <<118>>
VAL_W == <<119>>

\* Requests that read and write the store.
StoreRequests ==
    {Request(<<SET, KEY_K, VAL_V>>), Request(<<SET, KEY_K, VAL_W>>),
     Request(<<SET, KEY_J, VAL_V>>), Request(<<GET, KEY_K>>), Request(<<GET, KEY_J>>),
     Request(<<DEL, KEY_K>>), Request(<<DEL, KEY_K, KEY_J>>)}

\* Verbs the code does not match, and a verb of no command.
RPUSH == <<82, 80, 85, 83, 72>>
LPOP == <<76, 80, 79, 80>>
RPOP == <<82, 80, 79, 80>>
SADD == <<83, 65, 68, 68>>
SREM == <<83, 82, 69, 77>>
HSET == <<72, 83, 69, 84>>
HGET == <<72, 71, 69, 84>>
ECHO == <<69, 67, 72, 79>>
FOO == <<70, 79, 79>>

\* ASCII lower case of a verb, as a client may spell it.
to_lowercase(s) ==
    [i \in 1..Len(s) |-> IF s[i] >= 65 /\ s[i] <= 90 THEN s[i] + 32 ELSE s[i]]

Verbs == {GET, SET, DEL, LPUSH, RPUSH, LPOP, RPOP, SADD, SREM, HSET, HGET, PING, ECHO,
          INFO, COMMAND, FOO}
Spellings == Verbs \cup {to_lowercase(v) : v \in Verbs}

\* The arguments a request is given: the first n of "k", "l", "m", ...
MaxArgs == 4
ArgWords == [i \in 1..MaxArgs |-> <<106 + i>>]

\* Values that are not strings, as a verb or as an argument.
NonStrings == {Integer(1), BulkStringNone, Null, Array(<<>>)}

\* The values handed to Command::from_resp: every spelling with 0..MaxArgs
\* string arguments, every verb with a non-string last argument, a verb
\* given as a SimpleString, and values that are no request.
CommandValues ==
    {Request(<<w>> \o SubSeq(ArgWords, 1, n)) : w \in Spellings, n \in 0..MaxArgs}
    \cup
    {Array(<<Bulk(w)>> \o [i \in 1..n |-> IF i = n THEN x ELSE Bulk(ArgWords[i])]) :
        w \in Verbs, n \in 1..3, x \in NonStrings}
    \cup
    {Array(<<SimpleString(w)>> \o [i \in 1..n |-> SimpleString(ArgWords[i])]) :
        w \in {GET, to_lowercase(SET), FOO}, n \in 0..2}
    \cup
    {Array(<<x>>) : x \in NonStrings}
    \cup
    {Array(<<>>), ArrayNone, Null, BulkStringNone, Integer(1), SimpleString(PING),
     Bulk(GET), RespError(GET)}

\* What a client that waits for each answer sends: store requests, or one
\* value of CommandValues, alone or behind SET k v.
TurnStreams ==
    StreamsOf(StoreRequests, MaxStream)
    \cup {<<r>> : r \in CommandValues}
    \cup {<<Request(<<SET, KEY_K, VAL_V>>), r>> : r \in CommandValues}

\* ------------------------------------------------------------ LRU cache
\* LruCache::new
LruCache_new(capacity) == [map |-> <<>>, queue |-> <<>>, capacity |-> capacity]

\* self.queue.iter().position(|x| x == key): the first index, 0 for None.
position(queue, key) ==
    IF \E i \in 1..Len(queue) : queue[i] = key
    THEN CHOOSE i \in 1..Len(queue) :
            queue[i] = key /\ \A j \in 1..(i - 1) : queue[j] # key
    ELSE 0

\* VecDeque::remove(index)
remove_at(queue, index) ==
    SubSeq(queue, 1, index - 1) \o SubSeq(queue, index + 1, Len(queue))

\* LruCache::get: the entry's value, its key moved to the front of the queue.
LruCache_get(self, key) ==
    IF key \in DOMAIN self.map
    THEN LET index == position(self.queue, key)
             moved == IF index # 0
                      THEN <<key>> \o remove_at(self.queue, index)
                      ELSE self.queue
         IN  [self |-> [self EXCEPT !.queue = moved], ret |-> OptSome(self.map[key])]
    ELSE [self |-> self, ret |-> OptNone]

\* LruCache::put: at capacity the key at the back of the queue is popped and
\* removed from the map; then the entry is inserted and its key pushed to the
\* front.
LruCache_put(self, key, value) ==
    LET full == Cardinality(DOMAIN self.map) >= self.capacity
        popped == full /\ self.queue # <<>>
        old_key == self.queue[Len(self.queue)]
        kept == IF popped THEN SubSeq(self.queue, 1, Len(self.queue) - 1) ELSE self.queue
        left == IF popped THEN [k \in DOMAIN self.map \ {old_key} |-> self.map[k]]
                ELSE self.map
    IN  [self |-> [self EXCEPT
                    !.map = [k \in DOMAIN left \cup {key} |->
                                IF k = key THEN value ELSE left[k]],
                    !.queue = <<key>> \o kept],
         ret |-> Unit]


\* ------------------------------------------------------------ state
VARIABLES
    input,      \* the bytes the peer sends in this run, chosen at the start
    fed,        \* how many of them read_buf has appended
    chunks,     \* read_buf calls made
    parser,     \* the Parser
    log,        \* one entry per try_parse call: bytes fed before it, the result
    turn,       \* "parse" right after a read_buf, else "any"
    repeats,    \* try_parse calls made with nothing appended since the last call
    \* one connection, ClientConn::handle_connection
    stream,     \* the requests the client sends, in order
    avail,      \* how many of them have arrived in the parser's buffer
    parsed,     \* how many of them try_parse has returned
    batch,      \* the commands pushed and not yet executed
    futures,    \* execute_batch: the commands of the batch being executed
    results,    \* execute_batch: their responses, Null until the command has run
    completed,  \* execute_batch: the positions in the batch, in completion order
    write_buf,  \* the scratch buffer of responses to write
    written,    \* the responses written to the socket, in order
    data,       \* the shared store
    pc,         \* where the connection task is
    ret,        \* where execute_batch returns to
    submitted,  \* history: every command pushed to a batch, in order
    outcomes,   \* history: the response each of them produced when it ran
    \* the server, Server::run and Server::close
    listener,   \* the accept loop of run: "bound" while it runs, else "dropped"
    shutdown_tx, \* TRUE while the server holds the broadcast sender
    shutdown_rx, \* per connection: the shutdown messages its receiver holds
    task,       \* per connection: "none", where its task awaits, or "exited"
    socket,     \* per connection: "none", "open" or "dropped"
    sent,       \* per connection: the kinds of the replies written to its socket
    \* tasks calling the shared DashMapStorage (the store is `data`)
    joined,     \* TRUE once the spawned tasks have been joined
    calls,      \* history: every storage call made, with what it returned
    \* an LruCache and its caller
    cache,      \* the LruCache: map, queue, capacity
    hit         \* what the last call on the cache returned

parserVars == <<input, fed, chunks, parser, log, turn, repeats>>
connVars == <<stream, avail, parsed, batch, futures, results, completed, write_buf,
              written, data, pc, ret, submitted, outcomes>>
serverVars == <<listener, shutdown_tx, shutdown_rx, task, socket, sent>>
storeVars == <<joined, calls>>
lruVars == <<cache, hit>>
vars == <<parserVars, connVars, serverVars, storeVars, lruVars>>

ConnIdle ==
    /\ avail = 0
    /\ parsed = 0
    /\ batch = <<>>
    /\ futures = <<>>
    /\ results = <<>>
    /\ completed = <<>>
    /\ write_buf = <<>>
    /\ written = <<>>
    /\ data = <<>>
    /\ pc = "read"
    /\ ret = "read"
    /\ submitted = <<>>
    /\ outcomes = <<>>

\* The connections the server may accept.
MaxConns == 2
Conns == 1..MaxConns
\* The replies followed on one socket.
MaxReplies == 2
\* ServerConfig.max_connections (1000 by default), scaled down below the
\* number of clients that connect. Server::run never reads it.
max_connections == 1

\* Server::new, and run up to the accept loop: the listener is bound, the
\* sender is held, nothing has been accepted.
ServerIdle ==
    /\ listener = "bound"
    /\ shutdown_tx = TRUE
    /\ shutdown_rx = [c \in Conns |-> 0]
    /\ task = [c \in Conns |-> "none"]
    /\ socket = [c \in Conns |-> "none"]
    /\ sent = [c \in Conns |-> <<>>]

\* No task calls the store.
StoreIdle ==
    /\ joined = FALSE
    /\ calls = <<>>

\* A cache nobody calls.
LruIdle ==
    /\ cache = LruCache_new(1)
    /\ hit = Unit

Init ==
    /\ input \in Inputs
    /\ fed = 0
    /\ chunks = 0
    /\ parser = NewParser
    /\ log = <<>>
    /\ turn = "any"
    /\ repeats = 0
    /\ stream = <<>>
    /\ ConnIdle
    /\ ServerIdle
    /\ StoreIdle
    /\ LruIdle

\* The driver appends the next n bytes of the stream.
ReadBuf ==
    /\ turn = "any"
    /\ chunks < MaxChunks
    /\ \E n \in 1..(Len(input.wire) - fed) :
        /\ parser' = read_buf(parser, SubSeq(input.wire, fed + 1, fed + n))
        /\ fed' = fed + n
    /\ chunks' = chunks + 1
    /\ turn' = "parse"
    /\ UNCHANGED <<input, log, repeats, connVars, serverVars, storeVars, lruVars>>

\* The driver calls try_parse after an append.
TryParse ==
    /\ turn = "parse"
    /\ LET r == try_parse(parser) IN
        /\ parser' = r.p
        /\ log' = Append(log, [fed |-> fed, res |-> r.res])
    /\ turn' = "any"
    /\ UNCHANGED <<input, fed, chunks, repeats, connVars, serverVars, storeVars, lruVars>>

\* The driver calls try_parse with nothing appended since the last call.
TryParseAgain ==
    /\ turn = "any"
    /\ repeats < MaxRepeats
    /\ LET r == try_parse(parser) IN
        /\ parser' = r.p
        /\ log' = Append(log, [fed |-> fed, res |-> r.res])
    /\ repeats' = repeats + 1
    /\ UNCHANGED <<input, fed, chunks, turn, connVars, serverVars, storeVars, lruVars>>

Next == ReadBuf \/ TryParse \/ TryParseAgain

Spec == Init /\ [][Next]_vars

\* ------------------------------------------------------------ connection
ConnInit ==
    /\ input = Input("frame", <<>>, Null, Null, 0, 0)
    /\ fed = 0
    /\ chunks = 0
    /\ parser = NewParser
    /\ log = <<>>
    /\ turn = "any"
    /\ repeats = 0
    /\ stream \in Streams(MaxStream)
    /\ ConnIdle
    /\ ServerIdle
    /\ StoreIdle
    /\ LruIdle

\* execute_batch, up to the join_all: the batch is drained into the futures.
StartBatch(b, back) ==
    /\ futures' = b
    /\ batch' = <<>>
    /\ results' = [i \in 1..Len(b) |-> Null]
    /\ completed' = <<>>
    /\ pc' = "exec"
    /\ ret' = back

\* reader.read_buf returns Ok(n), n > 0: the bytes completing k more requests.
ConnRead ==
    /\ pc = "read"
    /\ avail < Len(stream)
    /\ \E k \in 0..(Len(stream) - avail) : avail' = avail + k
    /\ pc' = "parse"
    /\ UNCHANGED <<stream, parsed, batch, futures, results, completed, write_buf,
                   written, data, ret, submitted, outcomes, parserVars, serverVars, storeVars, lruVars>>

\* reader.read_buf returns Ok(0): the client has sent everything and closed.
ConnEof ==
    /\ pc = "read"
    /\ avail = Len(stream)
    /\ pc' = "done"
    /\ UNCHANGED <<stream, avail, parsed, batch, futures, results, completed,
                   write_buf, written, data, ret, submitted, outcomes, parserVars, serverVars, storeVars, lruVars>>

\* One pass of the while-let loop: try_parse returns the next request,
\* from_resp converts it, the command is pushed, a full batch is executed.
ConnParseValue ==
    /\ pc = "parse"
    /\ parsed < avail
    /\ stream[parsed + 1] # MalformedFrame
    /\ parsed' = parsed + 1
    /\ LET r == from_resp(stream[parsed + 1]) IN
        IF r.ok
        THEN /\ submitted' = Append(submitted, r.cmd)
             /\ IF Len(batch) + 1 >= MAX_BATCH_SIZE
                THEN StartBatch(Append(batch, r.cmd), "parse")
                ELSE /\ batch' = Append(batch, r.cmd)
                     /\ UNCHANGED <<futures, results, completed, pc, ret>>
        ELSE UNCHANGED <<submitted, batch, futures, results, completed, pc, ret>>
    /\ UNCHANGED <<stream, avail, write_buf, written, data, outcomes, parserVars, serverVars, storeVars, lruVars>>

\* The end of the while-let loop going back to the read with the batch
\* still pending.
ConnParseEndKeepsBatch ==
    /\ pc = "parse"
    /\ parsed = avail
    /\ pc' = "read"
    /\ UNCHANGED <<stream, avail, parsed, batch, futures, results, completed, ret,
                   write_buf, written, data, submitted, outcomes, parserVars,
                   serverVars, storeVars, lruVars>>

\* The while-let loop ends (no further complete request): a non-empty batch
\* is executed, then the task reads again.
ConnParseEnd ==
    /\ pc = "parse"
    /\ parsed = avail
    /\ IF batch # <<>>
       THEN StartBatch(batch, "read")
       ELSE /\ pc' = "read"
            /\ UNCHANGED <<batch, futures, results, completed, ret>>
    /\ UNCHANGED <<stream, avail, parsed, write_buf, written, data, submitted,
                   outcomes, parserVars, serverVars, storeVars, lruVars>>

\* try_parse returns Err: the while-let loop ends as it does when no further
\* request is complete; a non-empty batch is executed and the task reads
\* again. The parser has dropped the malformed bytes, and possibly more of
\* what was buffered behind them.
ConnParseError ==
    /\ pc = "parse"
    /\ parsed < avail
    /\ stream[parsed + 1] = MalformedFrame
    /\ \E n \in (parsed + 1)..avail : parsed' = n
    /\ IF batch # <<>>
       THEN StartBatch(batch, "read")
       ELSE /\ pc' = "read"
            /\ UNCHANGED <<batch, futures, results, completed, ret>>
    /\ UNCHANGED <<stream, avail, write_buf, written, data, submitted, outcomes,
                   parserVars, serverVars, storeVars, lruVars>>

\* join_all: the next command of the batch runs.
ConnExec ==
    /\ pc = "exec"
    /\ Len(completed) < Len(futures)
    /\ LET i == join_all_next(futures, completed)
           r == exec(futures[i], data)
       IN  /\ data' = r.data
           /\ results' = [results EXCEPT ![i] = r.resp]
           /\ outcomes' = [x \in DOMAIN outcomes \cup {Len(submitted) - Len(batch)
                                                       - Len(futures) + i} |->
                            IF x \in DOMAIN outcomes THEN outcomes[x] ELSE r.resp]
           /\ completed' = Append(completed, i)
    /\ UNCHANGED <<stream, avail, parsed, batch, futures, write_buf, written, pc, ret,
                   submitted, parserVars, serverVars, storeVars, lruVars>>

\* join_all has returned: the responses are appended to write_buf.
ConnCollect ==
    /\ pc = "exec"
    /\ Len(completed) = Len(futures)
    /\ write_buf' = write_buf \o results_in_order(results, completed)
    /\ pc' = "write"
    /\ UNCHANGED <<stream, avail, parsed, batch, futures, results, completed, written,
                   data, ret, submitted, outcomes, parserVars, serverVars, storeVars, lruVars>>

\* write_all, flush, write_buf.clear(), and execute_batch returns.
ConnFlush ==
    /\ pc = "write"
    /\ written' = written \o write_buf
    /\ write_buf' = <<>>
    /\ futures' = <<>>
    /\ results' = <<>>
    /\ completed' = <<>>
    /\ pc' = ret
    /\ UNCHANGED <<stream, avail, parsed, batch, data, ret, submitted, outcomes,
                   parserVars, serverVars, storeVars, lruVars>>

ConnNext ==
    \/ ConnRead
    \/ ConnEof
    \/ ConnParseValue
    \/ ConnParseEnd
    \/ ConnParseError
    \/ ConnExec
    \/ ConnCollect
    \/ ConnFlush

ConnSpec == ConnInit /\ [][ConnNext]_vars

\* ------------------------------------------------------------ one request at a time
TurnInit ==
    /\ input = Input("frame", <<>>, Null, Null, 0, 0)
    /\ fed = 0
    /\ chunks = 0
    /\ parser = NewParser
    /\ log = <<>>
    /\ turn = "any"
    /\ repeats = 0
    /\ stream \in TurnStreams
    /\ ConnIdle
    /\ ServerIdle
    /\ StoreIdle
    /\ LruIdle

\* reader.read_buf returns the bytes of exactly the next request: the client
\* sends a request once the task is back at the socket read.
ConnReadOne ==
    /\ pc = "read"
    /\ avail < Len(stream)
    /\ avail' = avail + 1
    /\ pc' = "parse"
    /\ UNCHANGED <<stream, parsed, batch, futures, results, completed, write_buf,
                   written, data, ret, submitted, outcomes, parserVars, serverVars, storeVars, lruVars>>

TurnNext ==
    \/ ConnReadOne
    \/ ConnEof
    \/ ConnParseValue
    \/ ConnParseEnd
    \/ ConnExec
    \/ ConnCollect
    \/ ConnFlush

TurnSpec == TurnInit /\ [][TurnNext]_vars

\* ------------------------------------------------------------ server
\* The tasks that are being served.
Live == {"read", "write"}

\* A send that reaches one receiver only, as on a queue with one consumer.
send_to_one(rx, tasks) ==
    IF \E c \in DOMAIN rx : tasks[c] \in Live
    THEN LET first == CHOOSE c \in DOMAIN rx :
                        /\ tasks[c] \in Live
                        /\ \A d \in DOMAIN rx : tasks[d] \in Live => c <= d
         IN  [rx EXCEPT ![first] = 1]
    ELSE rx

\* broadcast::Sender::send(()): every receiver subscribed and not yet dropped
\* holds the message.
broadcast_send(rx, tasks) ==
    [c \in DOMAIN rx |-> IF tasks[c] \in Live THEN 1 ELSE rx[c]]

ServerInit ==
    /\ input = Input("frame", <<>>, Null, Null, 0, 0)
    /\ fed = 0
    /\ chunks = 0
    /\ parser = NewParser
    /\ log = <<>>
    /\ turn = "any"
    /\ repeats = 0
    /\ stream = <<>>
    /\ ConnIdle
    /\ ServerIdle
    /\ StoreIdle
    /\ LruIdle

\* One pass of the accept loop: accept, subscribe, spawn the task, which
\* starts handle_connection and awaits the first socket read.
Accept(c) ==
    /\ listener = "bound"
    /\ task[c] = "none"
    /\ shutdown_rx' = [shutdown_rx EXCEPT ![c] = 0]
    /\ task' = [task EXCEPT ![c] = "read"]
    /\ socket' = [socket EXCEPT ![c] = "open"]
    /\ UNCHANGED <<listener, shutdown_tx, sent, parserVars, connVars, storeVars, lruVars>>

\* handle_connection: a read returns requests, they are parsed and executed
\* and the task awaits the write of their responses.
TaskRead(c) ==
    /\ task[c] = "read"
    /\ Len(sent[c]) < MaxReplies
    /\ task' = [task EXCEPT ![c] = "write"]
    /\ UNCHANGED <<listener, shutdown_tx, shutdown_rx, socket, sent, parserVars,
                   connVars, storeVars, lruVars>>

\* handle_connection: write_all and flush complete; the reply is a response
\* or the error line of a failed command; the task awaits the next read.
TaskWrite(c) ==
    /\ task[c] = "write"
    /\ \E kind \in {"reply", "error"} : sent' = [sent EXCEPT ![c] = Append(@, kind)]
    /\ task' = [task EXCEPT ![c] = "read"]
    /\ UNCHANGED <<listener, shutdown_tx, shutdown_rx, socket, parserVars, connVars, storeVars, lruVars>>

\* The handle_connection branch of the select completes: the read returned
\* Ok(0). The task ends and its socket is dropped.
TaskEof(c) ==
    /\ task[c] = "read"
    /\ task' = [task EXCEPT ![c] = "exited"]
    /\ socket' = [socket EXCEPT ![c] = "dropped"]
    /\ UNCHANGED <<listener, shutdown_tx, shutdown_rx, sent, parserVars, connVars, storeVars, lruVars>>

\* The shutdown_rx.recv() branch of the select completes: handle_connection
\* is dropped where it awaits, the task ends and its socket is dropped.
TaskShutdown(c) ==
    /\ task[c] \in Live
    /\ shutdown_rx[c] > 0
    /\ task' = [task EXCEPT ![c] = "exited"]
    /\ socket' = [socket EXCEPT ![c] = "dropped"]
    /\ UNCHANGED <<listener, shutdown_tx, shutdown_rx, sent, parserVars, connVars, storeVars, lruVars>>

\* Server::close while the accept loop goes on: the sender is taken and
\* the message sent, the listener stays bound.
CloseKeepsListening ==
    /\ shutdown_tx = TRUE
    /\ shutdown_tx' = FALSE
    /\ shutdown_rx' = broadcast_send(shutdown_rx, task)
    /\ UNCHANGED <<listener, task, socket, sent, parserVars, connVars, storeVars, lruVars>>

\* Ctrl-C: the select of run_server drops the run future, and with it the
\* listener, and calls Server::close, which takes the sender and sends.
Close ==
    /\ shutdown_tx = TRUE
    /\ shutdown_tx' = FALSE
    /\ shutdown_rx' = broadcast_send(shutdown_rx, task)
    /\ listener' = "dropped"
    /\ UNCHANGED <<task, socket, sent, parserVars, connVars, storeVars, lruVars>>

ServerNext ==
    \/ \E c \in Conns : Accept(c)
    \/ \E c \in Conns : TaskRead(c)
    \/ \E c \in Conns : TaskWrite(c)
    \/ \E c \in Conns : TaskEof(c)
    \/ \E c \in Conns : TaskShutdown(c)
    \/ Close

\* The runtime polls a task that has been woken: a task whose receiver holds
\* the message is polled and its select takes the shutdown branch.
ServerSpec ==
    /\ ServerInit
    /\ [][ServerNext]_vars
    /\ \A c \in Conns : WF_vars(TaskShutdown(c))

\* ------------------------------------------------------------ storage
\* The tasks spawned on the shared store.
MaxTasks == 2
StoreTasks == 1..MaxTasks
\* The thread that spawns and joins them.
MAIN == 0
\* The most storage calls one run makes.
MaxCalls == 3

StoreKeys == {KEY_K, KEY_J}
StoreValues == {BulkString(VAL_V), BulkString(VAL_W)}

Call(op, key, value) == [op |-> op, key |-> key, value |-> value]
\* What connection tasks call: Command::exec reaches set, get and delete.
TaskCalls ==
    {Call("set", k, v) : k \in StoreKeys, v \in StoreValues}
    \cup {Call("get", k, Null) : k \in StoreKeys}
    \cup {Call("delete", k, Null) : k \in StoreKeys}
\* What a single thread calls, as test_basic_operations does.
MainCalls == TaskCalls \cup {Call("len", <<>>, Null), Call("clear", <<>>, Null)}

Apply(c, d) ==
    CASE c.op = "get" -> DashMapStorage_get(d, c.key)
      [] c.op = "set" -> DashMapStorage_set(d, c.key, c.value)
      [] c.op = "delete" -> DashMapStorage_delete(d, c.key)
      [] c.op = "clear" -> DashMapStorage_clear(d)
      [] c.op = "len" -> DashMapStorage_len(d)

StoreInit ==
    /\ input = Input("frame", <<>>, Null, Null, 0, 0)
    /\ fed = 0
    /\ chunks = 0
    /\ parser = NewParser
    /\ log = <<>>
    /\ turn = "any"
    /\ repeats = 0
    /\ stream = <<>>
    /\ ConnIdle
    /\ ServerIdle
    /\ StoreIdle
    /\ LruIdle

\* Task `by` makes call c on the shared store.
StorageCall(by, c) ==
    /\ Len(calls) < MaxCalls
    /\ LET r == Apply(c, data) IN
        /\ data' = r.data
        /\ calls' = Append(calls, [by |-> by, call |-> c, ret |-> r.ret])
    /\ UNCHANGED <<stream, avail, parsed, batch, futures, results, completed,
                   write_buf, written, pc, ret, submitted, outcomes, joined,
                   parserVars, serverVars, lruVars>>

\* A spawned task makes its next call.
TaskCall(t) == ~joined /\ \E c \in TaskCalls : StorageCall(t, c)

\* tokio::try_join!: every spawned task has returned.
Join ==
    /\ ~joined
    /\ joined' = TRUE
    /\ UNCHANGED <<calls, parserVars, connVars, serverVars, lruVars>>

\* The joining thread calls the store by itself.
MainCall == joined /\ \E c \in MainCalls : StorageCall(MAIN, c)

StoreNext ==
    \/ \E t \in StoreTasks : TaskCall(t)
    \/ Join
    \/ MainCall

StoreSpec == StoreInit /\ [][StoreNext]_vars

\* ------------------------------------------------------------ LRU cache
\* The capacities a cache is created with.
MaxCapacity == 2
\* The keys and values put.
MaxLruKeys == 3
LruKeys == 1..MaxLruKeys
MaxLruValues == 2
LruValues == 1..MaxLruValues
\* The queue lengths followed.
MaxQueue == 4

LruInit ==
    /\ input = Input("frame", <<>>, Null, Null, 0, 0)
    /\ fed = 0
    /\ chunks = 0
    /\ parser = NewParser
    /\ log = <<>>
    /\ turn = "any"
    /\ repeats = 0
    /\ stream = <<>>
    /\ ConnIdle
    /\ ServerIdle
    /\ StoreIdle
    /\ \E capacity \in 1..MaxCapacity : cache = LruCache_new(capacity)
    /\ hit = Unit

LruGet(key) ==
    /\ LET r == LruCache_get(cache, key) IN
        /\ cache' = r.self
        /\ hit' = r.ret
    /\ UNCHANGED <<parserVars, connVars, serverVars, storeVars>>

LruPut(key, value) ==
    /\ Len(cache.queue) < MaxQueue
    /\ LET r == LruCache_put(cache, key, value) IN
        /\ cache' = r.self
        /\ hit' = r.ret
    /\ UNCHANGED <<parserVars, connVars, serverVars, storeVars>>

LruNext ==
    \/ \E key \in LruKeys : LruGet(key)
    \/ \E key \in LruKeys, value \in LruValues : LruPut(key, value)

LruSpec == LruInit /\ [][LruNext]_vars

\* ------------------------------------------------------------ parser claims
\* The whole input has been appended before call i of the log.
Full(i) == log[i].fed = Len(input.wire)
\* Call i is the first one made with the whole input appended.
FirstFull(i) == Full(i) /\ \A j \in 1..(i - 1) : ~Full(j)
\* The run appended the whole input in one read_buf and no call preceded it.
OnePiece == log # <<>> /\ Full(1)

\* A need-more-data result, read generously: Ok(None), or one of the two
\* error kinds the parser uses for running out of bytes.
NeedMoreData(res) ==
    res = OkNone \/ res = Err("NotEnoughData") \/ res = Err("UnexpectedEof")

\* What try_parse returns for bytes appended in a single piece to a new parser.
SinglePiece(wire) == try_parse(read_buf(NewParser, wire)).res

\* C1: for a well-formed frame in any chunking, every try_parse made before
\* the last byte arrived reports need-more-data, and the first one made after
\* it returns the value that the single-piece parse returns.
C1_ChunkingIndependence ==
    input.kind = "frame" =>
        \A i \in 1..Len(log) :
            /\ (log[i].fed > 0 /\ ~Full(i)) => NeedMoreData(log[i].res)
            /\ FirstFull(i) =>
                    /\ log[i].res.tag = "Some"
                    /\ log[i].res = SinglePiece(input.wire)

\* C2: two frames appended in one read_buf: the first try_parse returns F1 and
\* leaves exactly the bytes of F2 in the buffer, the second returns F2.
C2_TrailingBytesPreserved ==
    (input.kind = "two" /\ OnePiece) =>
        /\ log[1].res = OkSome(input.v1)
        /\ Len(log) = 1 => parser.buffer = as_bytes(input.v2)
        /\ Len(log) >= 2 => log[2].res = OkSome(input.v2)

\* C3: on an empty buffer or a proper prefix of a well-formed frame try_parse
\* reports need-more-data: neither a value nor a terminal error.
C3_NeedMoreDataIsNotAnError ==
    input.kind = "frame" =>
        \A i \in 1..Len(log) : ~Full(i) => NeedMoreData(log[i].res)

\* C4: a complete array frame of n >= 1 elements decodes to the array of
\* exactly those elements in order, and no call returns a bare element.
C4_ArrayAssembly ==
    (input.kind = "frame" /\ input.v1.t = "Array" /\ input.v1.some
        /\ Len(input.v1.elems) >= 1) =>
        \A i \in 1..Len(log) :
            /\ FirstFull(i) => log[i].res = OkSome(input.v1)
            /\ log[i].res.tag = "Some" =>
                    \A e \in 1..Len(input.v1.elems) : log[i].res.val # input.v1.elems[e]

\* C5: an array nested max_depth + 1 deep makes try_parse fail, in one append
\* or several: the call made once it has arrived returns an error.
C5_DepthBound ==
    input.kind = "deep" =>
        \A i \in 1..Len(log) : FirstFull(i) => log[i].res.tag = "Err"

OutOfRange(n) == n < I64_MIN \/ n > I64_MAX
Abs(n) == IF n < 0 THEN 0 - n ELSE n

\* C7 as stated: a field whose absolute value exceeds i64::MAX fails with
\* Overflow once it has arrived.
C7_OverflowByAbsoluteValue ==
    (input.kind = "num" /\ Abs(input.n) > I64_MAX) =>
        \A i \in 1..Len(log) : Full(i) => log[i].res = Err("Overflow")

\* C7 amended: a length or integer field whose value lies outside
\* [i64::MIN, i64::MAX] fails with Overflow in every call made once it has
\* arrived and no call returns a value for it; a field inside the range never
\* yields a value other than its own number.
C7_OverflowSafety ==
    input.kind = "num" =>
        \A i \in 1..Len(log) :
            IF OutOfRange(input.n)
            THEN /\ Full(i) => log[i].res = Err("Overflow")
                 /\ log[i].res.tag # "Some"
            ELSE log[i].res.tag = "Some" =>
                    log[i].res.val \in {Integer(input.n), Null, ArrayNone}

\* C7 witness: an out-of-range field has arrived and was rejected with Overflow.
C7_Witness ==
    /\ input.kind = "num"
    /\ OutOfRange(input.n)
    /\ \E i \in 1..Len(log) : Full(i) /\ log[i].res = Err("Overflow")

\* Equality of a decoded result with the value encoded; the null bulk string
\* and Null share one encoding and count as equal.
RoundTripEq(v, res) ==
    res = OkSome(v) \/ (v = BulkStringNone /\ res = OkSome(Null))

\* C8: encoding a value and feeding the bytes to a new parser makes try_parse
\* return the value.
C8_RoundTrip ==
    (input.kind = "frame" /\ OnePiece) => RoundTripEq(input.v1, log[1].res)

\* C9: "$0 CRLF CRLF" decodes to a BulkString with an empty payload, which is
\* not what "$-1 CRLF" decodes to.
C9_ZeroLengthBulkIsNotNull ==
    (input.kind = "frame" /\ input.v1 = BulkString(<<>>) /\ OnePiece) =>
        /\ log[1].res = OkSome(BulkString(<<>>))
        /\ log[1].res # SinglePiece(as_bytes(Null))

\* ------------------------------------------------------------ connection claims
\* The response is one the command can produce.
Answers(cmd, resp) ==
    CASE cmd.c = "Get" -> resp = Null \/ (resp.t = "BulkString" /\ resp.some)
      [] cmd.c \in {"Set", "Del", "Command"} -> resp = SimpleString(OK)
      [] cmd.c = "Ping" -> resp = SimpleString(PONG)
      [] cmd.c = "Unknown" -> resp = ErrReply("unknown command", cmd.command)
      [] cmd.c = "Info" -> resp = BulkString(INFO_REPLY)
      [] OTHER -> resp = ErrReply("command not implemented", <<>>)

\* C10: the responses are written in the order the requests were parsed: the
\* k-th response on the socket is the one the k-th submitted command produced
\* when it ran.
C10_ResponseOrder ==
    /\ Len(written) <= Len(submitted)
    /\ \A k \in 1..Len(written) :
        /\ k \in DOMAIN outcomes
        /\ written[k] = outcomes[k]
        /\ Answers(submitted[k], written[k])

\* C10 witness: SET k v and DEL k were the first two commands submitted,
\* a GET k followed, and the responses are on the socket in submission order:
\* OK, OK, then the null reply.
C10_Witness ==
    /\ Len(written) = 3
    /\ submitted[1].c = "Set"
    /\ submitted[2].c = "Del"
    /\ submitted[3].c = "Get"
    /\ written = <<SimpleString(OK), SimpleString(OK), Null>>

\* The stream holds no malformed bytes.
NoMalformed == \A i \in 1..Len(stream) : stream[i] # MalformedFrame
\* try_parse has returned a terminal error on this connection.
ParserFailed == \E i \in 1..parsed : stream[i] = MalformedFrame

\* C11: every value try_parse yields gets exactly one response: whenever the
\* task is back at the socket read, or has finished, as many responses are on
\* the socket as values were parsed, rejected ones included.
C11_EveryRequestAnswered ==
    (NoMalformed /\ pc \in {"read", "done"}) => Len(written) = parsed

\* The command is one whose execution fails.
FailsAtExec(cmd) == cmd.c \in {"Unknown", "LPush"}
IsPrefix(a, b) == Len(a) <= Len(b) /\ SubSeq(b, 1, Len(a)) = a
IsSuffix(a, b) == Len(a) <= Len(b) /\ SubSeq(b, Len(b) - Len(a) + 1, Len(b)) = a

\* C12: a command that fails at execution is answered with a line that begins
\* with "-ERR " and ends with CRLF; the connection stays open (it finishes only
\* at the client's end of stream), and every command behind the failed one is
\* executed and answered with the response it produced.
C12_CommandErrorsAreRecoverable ==
    /\ \A k \in 1..Len(written) :
            FailsAtExec(submitted[k]) =>
                /\ written[k].t = "Error"
                /\ IsPrefix(ERR_PREFIX, reply_bytes(written[k]))
                /\ IsSuffix(CRLF, reply_bytes(written[k]))
                /\ \A j \in (k + 1)..Len(written) :
                        ~FailsAtExec(submitted[j]) =>
                            /\ written[j] = outcomes[j]
                            /\ written[j].t # "Error"
    /\ pc = "done" =>
            /\ avail = Len(stream)
            /\ NoMalformed => Len(written) = Len(submitted)

\* C12 witness: an unknown verb was answered with an error line, and the SET
\* behind it on the same connection was answered OK.
C12_Witness ==
    \E k \in 1..(Len(written) - 1) :
        /\ submitted[k].c = "Unknown"
        /\ written[k] = ErrReply("unknown command", submitted[k].command)
        /\ submitted[k + 1].c = "Set"
        /\ written[k + 1] = SimpleString(OK)

\* C13: once try_parse has returned a terminal error the task does not come
\* back to the parse loop: no socket read follows the error.
C13_ParserErrorTerminates == ParserFailed => pc # "parse"

\* ------------------------------------------------------------ command claims
\* The keys a DEL names.
Named(cmd) == {cmd.keys[i] : i \in 1..Len(cmd.keys)}

RECURSIVE RefGet(_, _)
\* The reference map: what key holds after the commands cmds, read from the
\* last command backwards.
RefGet(cmds, key) ==
    IF cmds = <<>> THEN Null
    ELSE LET last == cmds[Len(cmds)]
             front == SubSeq(cmds, 1, Len(cmds) - 1)
         IN  IF last.c = "Set" /\ last.key = key THEN BulkString(last.value)
             ELSE IF last.c = "Del" /\ key \in Named(last) THEN Null
             ELSE RefGet(front, key)

\* C14: with each command sent and answered in turn, GET k returns the bulk
\* string of the most recent SET k not followed by a DEL naming k, Null when
\* there is none, and every SET replies OK.
C14_StoreIsAReferenceMap ==
    \A k \in 1..Len(written) :
        /\ submitted[k].c = "Get" =>
                written[k] = RefGet(SubSeq(submitted, 1, k - 1), submitted[k].key)
        /\ submitted[k].c = "Set" => written[k] = SimpleString(OK)

\* C14 witness: SET k v, SET k w, GET k were answered OK, OK and "w".
C14_Witness ==
    /\ Len(written) = 3
    /\ submitted[1].c = "Set" /\ submitted[1].key = KEY_K /\ submitted[1].value = VAL_V
    /\ submitted[2].c = "Set" /\ submitted[2].key = KEY_K /\ submitted[2].value = VAL_W
    /\ submitted[3].c = "Get" /\ submitted[3].key = KEY_K
    /\ written = <<SimpleString(OK), SimpleString(OK), BulkString(VAL_W)>>

\* The command that ran in this step of join_all.
Ran == futures[completed'[Len(completed')]]

\* C15: a step in which DEL k1 ... kn runs leaves every listed key absent,
\* whether or not it was present, leaves every other key with its value, and
\* produces the reply OK.
C15_DelRemovesEveryListedKey ==
    [][(pc = "exec" /\ Len(completed') = Len(completed) + 1 /\ Ran.c = "Del") =>
            /\ \A key \in Named(Ran) : key \notin DOMAIN data'
            /\ DOMAIN data' = DOMAIN data \ Named(Ran)
            /\ \A key \in DOMAIN data' : data'[key] = data[key]
            /\ results'[completed'[Len(completed')]] = SimpleString(OK)]_vars

\* C15 witness: after SET k v and SET j v, DEL k j has run and been answered
\* OK, and the store is empty.
C15_Witness ==
    /\ Len(written) = 3
    /\ submitted[1].c = "Set" /\ submitted[1].key = KEY_K
    /\ submitted[2].c = "Set" /\ submitted[2].key = KEY_J
    /\ submitted[3].c = "Del" /\ submitted[3].keys = <<KEY_K, KEY_J>>
    /\ written[3] = SimpleString(OK)
    /\ DOMAIN data = {}

\* ASCII upper case, as the arity table spells the verbs.
AsciiUpper(s) ==
    [i \in 1..Len(s) |-> IF s[i] >= 97 /\ s[i] <= 122 THEN s[i] - 32 ELSE s[i]]
\* A string value: a SimpleString or a BulkString with a payload.
IsStr(v) == v.t = "SimpleString" \/ (v.t = "BulkString" /\ v.some)
\* A non-null array of at least one element whose first element is a string.
IsRequest(r) == r.t = "Array" /\ r.some /\ Len(r.elems) >= 1 /\ IsStr(r.elems[1])
VerbOf(r) == AsciiUpper(r.elems[1].s)
StringArgs(r) == \A j \in 2..Len(r.elems) : IsStr(r.elems[j])

\* The arity table: verb, the error naming it, and the array length required
\* (exactly n, or at least n).
Row(verb, err, exact, n) == [verb |-> verb, err |-> err, exact |-> exact, n |-> n]
ArityTable ==
    {Row(GET, "WrongNumberOfArguments:get", TRUE, 2),
     Row(SET, "WrongNumberOfArguments:set", TRUE, 3),
     Row(DEL, "WrongNumberOfArguments:del", FALSE, 2),
     Row(LPUSH, "WrongNumberOfArguments:lpush", FALSE, 3),
     Row(RPUSH, "WrongNumberOfArguments:rpush", FALSE, 3),
     Row(LPOP, "WrongNumberOfArguments:lpop", TRUE, 2),
     Row(RPOP, "WrongNumberOfArguments:rpop", TRUE, 2),
     Row(SADD, "WrongNumberOfArguments:sadd", FALSE, 3),
     Row(SREM, "WrongNumberOfArguments:srem", FALSE, 3),
     Row(HSET, "WrongNumberOfArguments:hset", TRUE, 4),
     Row(HGET, "WrongNumberOfArguments:hget", TRUE, 3),
     Row(PING, "WrongNumberOfArguments:ping", TRUE, 1),
     Row(ECHO, "WrongNumberOfArguments:echo", TRUE, 2),
     Row(INFO, "WrongNumberOfArguments:info", TRUE, 1),
     Row(COMMAND, "WrongNumberOfArguments:command", TRUE, 1)}
ArityHolds(row, len) == IF row.exact THEN len = row.n ELSE len >= row.n
TableVerbs == {row.verb : row \in ArityTable}
ReservedVerbs == {LPUSH, RPUSH, LPOP, RPOP, SADD, SREM, HSET, HGET}
\* The verbs whose arguments from_resp extracts.
ExtractingVerbs == {GET, SET, DEL, LPUSH}
\* The request is for a verb of the table and has the length the table asks.
ArityOk(r) ==
    \E row \in ArityTable : row.verb = VerbOf(r) /\ ArityHolds(row, Len(r.elems))

\* C16: a request for a verb of the arity table whose length violates the
\* table is rejected with WrongNumberOfArguments naming the verb, and once it
\* has been processed the store holds what it held before.
C16_CommandArity ==
    \A i \in 1..parsed : \A row \in ArityTable :
        (IsRequest(stream[i]) /\ VerbOf(stream[i]) = row.verb
            /\ ~ArityHolds(row, Len(stream[i].elems))) =>
            /\ from_resp(stream[i]) = CmdErr(row.err)
            /\ (pc = "done" /\ i = Len(stream)) =>
                    DOMAIN data = (IF i = 1 THEN {} ELSE {KEY_K})

\* The request with its verb spelled in upper case.
UpperCased(r) ==
    [r EXCEPT !.elems = [r.elems EXCEPT ![1] = [r.elems[1] EXCEPT !.s = AsciiUpper(@)]]]

\* What C17 says of every value apart from its arguments: only requests are
\* accepted, the spelling of the verb does not matter, an empty array is
\* EmptyCommand, a non-array or a first element that is no string is
\* InvalidCommandName.
VerbRules(r) ==
    LET res == from_resp(r) IN
    /\ res.ok => IsRequest(r)
    /\ IsRequest(r) => res = from_resp(UpperCased(r))
    /\ r = Array(<<>>) => res = CmdErr("EmptyCommand")
    /\ r.t # "Array" => res = CmdErr("InvalidCommandName")
    /\ (r.t = "Array" /\ r.some /\ Len(r.elems) >= 1 /\ ~IsStr(r.elems[1])) =>
            res = CmdErr("InvalidCommandName")

\* C17 as stated: the verb rules, and any request with an argument that is
\* no string is rejected with InvalidArgumentType.
C17_FromRespAcceptance ==
    \A i \in 1..parsed :
        /\ VerbRules(stream[i])
        /\ (IsRequest(stream[i]) /\ ~StringArgs(stream[i])) =>
                from_resp(stream[i]) = CmdErr("InvalidArgumentType")

\* C17 amended: the verb rules, with the null array rejected as
\* InvalidCommandName; for GET, SET, DEL and LPUSH with the arity the code
\* checks, an argument that is no string is rejected with
\* InvalidArgumentType; a request for any other verb is accepted whatever
\* its arguments are.
C17_FromRespAcceptanceOfExtractedArguments ==
    \A i \in 1..parsed :
        LET r == stream[i] IN
        /\ VerbRules(r)
        /\ r = ArrayNone => from_resp(r) = CmdErr("InvalidCommandName")
        /\ (IsRequest(r) /\ VerbOf(r) \in ExtractingVerbs /\ ArityOk(r)) =>
                IF StringArgs(r) THEN from_resp(r).ok
                ELSE from_resp(r) = CmdErr("InvalidArgumentType")
        /\ (IsRequest(r) /\ VerbOf(r) \notin ExtractingVerbs) => from_resp(r).ok

\* C17 witness: GET with an integer in place of the key has been handed to
\* from_resp and rejected with InvalidArgumentType.
C17_Witness ==
    /\ parsed >= 1
    /\ stream[1] = Array(<<Bulk(GET), Integer(1)>>)
    /\ from_resp(stream[1]) = CmdErr("InvalidArgumentType")

\* C18: a well-formed request for a reserved verb is accepted as a command
\* of its own, not as Unknown, and executing it leaves the store as it is
\* and fails with NotImplemented.
C18_ReservedVerbsNotImplemented ==
    \A i \in 1..parsed :
        LET r == stream[i] IN
        (IsRequest(r) /\ VerbOf(r) \in ReservedVerbs /\ ArityOk(r) /\ StringArgs(r)) =>
            /\ from_resp(r).ok
            /\ from_resp(r).cmd.c # "Unknown"
            /\ exec(from_resp(r).cmd, data) =
                    [data |-> data, resp |-> ErrReply("command not implemented", <<>>)]

\* The place among the submitted commands of the i-th value of the stream.
SubmittedIndex(i) == Cardinality({j \in 1..i : from_resp(stream[j]).ok})

\* C19: a request whose verb is not in the table is accepted as Unknown with
\* the upper-cased verb as its name, whatever its arguments; executing it
\* leaves the store as it is and fails with UnknownCommand naming the verb,
\* which is the reply written for it.
C19_UnknownVerbsFailAtExecution ==
    \A i \in 1..parsed :
        LET r == stream[i] IN
        (IsRequest(r) /\ VerbOf(r) \notin TableVerbs) =>
            /\ from_resp(r) =
                    CmdOk([NoCommand EXCEPT !.c = "Unknown", !.command = VerbOf(r)])
            /\ exec(from_resp(r).cmd, data) =
                    [data |-> data, resp |-> ErrReply("unknown command", VerbOf(r))]
            /\ SubmittedIndex(i) <= Len(written) =>
                    written[SubmittedIndex(i)] = ErrReply("unknown command", VerbOf(r))

\* C19 witness: behind SET k v, the request "foo k" was accepted, executed and
\* answered with the unknown-command error naming FOO; the store still holds k.
C19_Witness ==
    /\ Len(stream) = 2
    /\ stream[2] = Request(<<to_lowercase(FOO), ArgWords[1]>>)
    /\ Len(written) = 2
    /\ written[2] = ErrReply("unknown command", FOO)
    /\ DOMAIN data = {KEY_K}

\* ------------------------------------------------------------ server claims
\* C20: once the shutdown broadcast is published, every connection task that
\* is live eventually exits with its socket dropped, and the step in which a
\* task exits writes nothing to its socket.
C20_ShutdownReachesEveryConnection ==
    /\ \A c \in Conns :
            (shutdown_tx = FALSE /\ task[c] \in Live)
                ~> (task[c] = "exited" /\ socket[c] = "dropped")
    /\ [][\A c \in Conns :
            (task[c] \in Live /\ task'[c] = "exited") =>
                (sent'[c] = sent[c] /\ socket'[c] = "dropped")]_vars

\* C20 witness: the broadcast was published while both connections were
\* being served, one of them awaiting a write; both tasks have exited and
\* both sockets are dropped.
C20_Witness ==
    /\ shutdown_tx = FALSE
    /\ \A c \in Conns :
            task[c] = "exited" /\ socket[c] = "dropped" /\ shutdown_rx[c] = 1
    /\ \E c \in Conns : Len(sent[c]) = 0

\* C21: the number of connection tasks being served never exceeds
\* max_connections, and a socket accepted while that many are being served
\* is closed instead of being served.
Served == {c \in Conns : task[c] \in Live}

C21_ConnectionCap ==
    /\ [](Cardinality(Served) <= max_connections)
    /\ [][\A c \in Conns :
            (task[c] = "none" /\ socket'[c] # "none"
                /\ Cardinality(Served) >= max_connections) =>
                (socket'[c] = "dropped" /\ task'[c] \notin Live)]_vars

\* ------------------------------------------------------------ storage claims
RECURSIVE RefValue(_, _)
\* What the calls of history h leave stored under key: the value of the last
\* set of that key, unless a delete of it or a clear came after.
RefValue(h, key) ==
    IF h = <<>> THEN OptNone
    ELSE LET c == h[Len(h)].call IN
         CASE c.op = "clear" -> OptNone
           [] c.op = "set" /\ c.key = key -> OptSome(c.value)
           [] c.op = "delete" /\ c.key = key -> OptNone
           [] OTHER -> RefValue(SubSeq(h, 1, Len(h) - 1), key)

\* The calls made before call i.
Before(i) == SubSeq(calls, 1, i - 1)
\* What get(key) returns in the current state.
GetNow(key) == DashMapStorage_get(data, key).ret
LenNow == DashMapStorage_len(data).ret.n

\* C22: set and delete return the value previously stored under the key
\* (None if absent), get returns the stored value, and len returns the number
\* of keys stored; right after set(k, v) get(k) is v, right after delete(k)
\* get(k) is None, right after clear len is 0 and every get is None.
C22_StorageContract ==
    \A i \in 1..Len(calls) :
        LET c == calls[i].call
            r == calls[i].ret
            last == i = Len(calls)
        IN  /\ c.op \in {"set", "delete", "get"} => r = RefValue(Before(i), c.key)
            /\ c.op = "len" =>
                    r.n = Cardinality({k \in StoreKeys : RefValue(Before(i), k).some})
            /\ (last /\ c.op = "set") => GetNow(c.key) = OptSome(c.value)
            /\ (last /\ c.op = "delete") => GetNow(c.key) = OptNone
            /\ (last /\ c.op = "clear") =>
                    LenNow = 0 /\ \A k \in StoreKeys : GetNow(k) = OptNone

\* C22 witness: set(k, v) on the empty store returned None, set(k, w)
\* returned v, and delete(k) returned w and left the store empty.
C22_Witness ==
    /\ Len(calls) = 3
    /\ calls[1].call = Call("set", KEY_K, BulkString(VAL_V))
    /\ calls[1].ret = OptNone
    /\ calls[2].call = Call("set", KEY_K, BulkString(VAL_W))
    /\ calls[2].ret = OptSome(BulkString(VAL_V))
    /\ calls[3].call = Call("delete", KEY_K, Null)
    /\ calls[3].ret = OptSome(BulkString(VAL_W))
    /\ LenNow = 0

\* The keys task t has set, and the calls made by spawned tasks.
KeysSetBy(t) ==
    {calls[i].call.key : i \in {j \in 1..Len(calls) :
                                    calls[j].by = t /\ calls[j].call.op = "set"}}
TaskCallsMade == {i \in 1..Len(calls) : calls[i].by \in StoreTasks}
\* The spawned tasks only set keys, and no key is set by two of them.
DisjointSets ==
    /\ \A i \in TaskCallsMade : calls[i].call.op = "set"
    /\ \A t, u \in StoreTasks : t # u => KeysSetBy(t) \cap KeysSetBy(u) = {}
AllKeysSet == UNION {KeysSetBy(t) : t \in StoreTasks}
\* The value of the last set of key in the history.
LastSet(key) ==
    LET at == {i \in 1..Len(calls) :
                    calls[i].call.op = "set" /\ calls[i].call.key = key}
    IN  calls[CHOOSE i \in at : \A j \in at : j <= i].call.value

\* C23: in any interleaving of the tasks' calls, (a) once tasks that set
\* disjoint key sets are joined, every key set holds the value last set for it
\* and len() returns the number of keys set; (b) every get returns None or a
\* value that an earlier set wrote for that key.
C23_SingleKeyAtomicity ==
    /\ (joined /\ DisjointSets /\ TaskCallsMade = 1..Len(calls)) =>
            /\ LenNow = Cardinality(AllKeysSet)
            /\ \A k \in AllKeysSet : GetNow(k) = OptSome(LastSet(k))
    /\ (joined /\ DisjointSets) =>
            LET first == Cardinality(TaskCallsMade) + 1 IN
            (first <= Len(calls) /\ calls[first].call.op = "len") =>
                calls[first].ret = Count(Cardinality(AllKeysSet))
    /\ \A i \in 1..Len(calls) :
            (calls[i].call.op = "get" /\ calls[i].ret.some) =>
                \E j \in 1..(i - 1) :
                    /\ calls[j].call.op = "set"
                    /\ calls[j].call.key = calls[i].call.key
                    /\ calls[j].call.value = calls[i].ret.v

\* C23 witness: one task set k, the other set j, and after the join len()
\* returned 2.
C23_Witness ==
    /\ joined
    /\ Len(calls) = 3
    /\ calls[1].by # calls[2].by
    /\ calls[1].call = Call("set", KEY_K, BulkString(VAL_V))
    /\ calls[2].call = Call("set", KEY_J, BulkString(VAL_W))
    /\ calls[3].by = MAIN
    /\ calls[3].call.op = "len"
    /\ calls[3].ret = Count(2)

\* ------------------------------------------------------------ parser state claims
\* The last try_parse call, and whether bytes were appended since.
LastCall == log[Len(log)]
NothingAppendedSince == log # <<>> /\ LastCall.fed = fed /\ turn = "any"
\* This step is a try_parse call.
Calls == Len(log') = Len(log) + 1

\* C24: a try_parse made with nothing appended since a call that reported
\* need-more-data reports need-more-data again and leaves buffer, state and
\* frame stack as that call left them.
C24_IdempotentOnEmptyAppend ==
    [][(input.kind = "frame" /\ NothingAppendedSince /\ NeedMoreData(LastCall.res)
            /\ Calls) =>
        (NeedMoreData(log'[Len(log')].res) /\ parser' = parser)]_vars

\* C25: after a try_parse that returned the value of a frame (Null and
\* arrays included) the frame's bytes are gone from the buffer, the state is
\* Index at its start, the frame stack is empty, and a repeated call with
\* nothing appended does not return a value.
C25_SuccessResets ==
    (input.kind = "frame" /\ NothingAppendedSince /\ fed = Len(input.wire)
        /\ LastCall.res.tag = "Some") =>
        /\ parser.buffer = <<>>
        /\ parser.state = Index(0)
        /\ parser.nested_stack = <<>>
        /\ try_parse(parser).res.tag # "Some"

\* C26: after try_parse returns a terminal parse error the parser is as new:
\* state Index{pos: 0}, no frame on the stack, an empty buffer.
C26_ErrorResets ==
    (input.kind \in {"num", "bulkhdr", "deep"} /\ NothingAppendedSince
        /\ fed = Len(input.wire) /\ LastCall.res.tag = "Err"
        /\ ~NeedMoreData(LastCall.res)) =>
        /\ parser.state = Index(0)
        /\ parser.nested_stack = <<>>
        /\ parser.buffer = <<>>

\* C27: after any sequence of read_buf and try_parse calls the frame stack
\* holds at most max_depth frames.
C27_StackBound == Len(parser.nested_stack) <= max_depth

\* C28: for an array holding an array, a completed inner array is appended to
\* the outer frame as one element that the frame's count includes, and a
\* value is returned only once the outermost array has all its elements:
\* the call returning it has the whole frame and returns the outer array.
C28_NestedArrays ==
    (input.kind = "frame" /\ input.v1 \in NestedArrays) =>
        /\ \A i \in 1..Len(log) :
                log[i].res.tag = "Some" => (Full(i) /\ log[i].res.val = input.v1)
        /\ \A d \in 1..Len(parser.nested_stack) :
                LET frame == parser.nested_stack[d]
                    arrays == {e \in 1..Len(frame.elements) :
                                    frame.elements[e].t = "Array"}
                IN  Cardinality(arrays) <= frame.current

\* C29: every frame on the stack has a count equal to the number of elements
\* it has accumulated and below its declared total, and the outermost frame of
\* an array frame holds the array's first elements, each once, in order.
C29_FrameConsistency ==
    /\ \A d \in 1..Len(parser.nested_stack) :
            LET frame == parser.nested_stack[d] IN
            /\ frame.current = Len(frame.elements)
            /\ frame.current < frame.total
    /\ (input.kind = "frame" /\ input.v1.t = "Array" /\ parser.nested_stack # <<>>) =>
            LET got == parser.nested_stack[1].elements IN
            /\ Len(got) <= Len(input.v1.elems)
            /\ got = SubSeq(input.v1.elems, 1, Len(got))

\* The offset in the wire of an array frame just past its first k elements.
PastElement(v, k) ==
    LET F[i \in 0..k] ==
            IF i = 0 THEN Len(<<STAR>> \o FormatInt(Len(v.elems)) \o CRLF)
            ELSE F[i - 1] + Len(as_bytes(v.elems[i]))
    IN  F[k]
\* Every append up to call i ended at the header or at the end of an element.
ElementWise(i) ==
    \A j \in 1..i : \E k \in 0..Len(input.v1.elems) : log[j].fed = PastElement(input.v1, k)
FUSE == "InvalidFormat:Maximum parsing iterations exceeded"

\* C30: an array of integers appended as its header and then one element at
\* a time, with a try_parse after each append: every call before the last
\* element returns Ok(None), the call after it returns the array, and no call
\* fails on the iteration fuse.
C30_FuseSparesWellFormedFrames ==
    (input.kind = "frame" /\ input.v1.t = "Array" /\ input.v1.some
        /\ Len(input.v1.elems) >= 1
        /\ \A e \in 1..Len(input.v1.elems) : input.v1.elems[e].t = "Integer") =>
        \A i \in 1..Len(log) :
            ElementWise(i) =>
                /\ ~Full(i) => log[i].res = OkNone
                /\ FirstFull(i) => log[i].res = OkSome(input.v1)
                /\ log[i].res # Err(FUSE)

\* ------------------------------------------------------------ field claims
\* The input is an array or bulk header declaring length input.n, at the top
\* level or as the element of an array.
IsLengthHeader ==
    /\ input.kind = "num"
    /\ \/ input.wire = Field(STAR, input.n)
       \/ input.wire = Field(DOLLAR, input.n)
       \/ input.wire = ArrayOfOne \o Field(DOLLAR, input.n)
\* "*-1\r\n" decodes to the null array and "*0\r\n" to the empty array.
NullAndEmptyArray ==
    \A i \in 1..Len(log) :
        /\ (input.kind = "frame" /\ input.v1 = ArrayNone /\ FirstFull(i)) =>
                log[i].res = OkSome(ArrayNone)
        /\ (input.kind = "frame" /\ input.v1 = Array(<<>>) /\ FirstFull(i)) =>
                log[i].res = OkSome(Array(<<>>))

IsIntegerFrame == input.kind = "num" /\ input.wire = Field(COLON, input.n)

\* C32: for every v of the signed 64-bit range, i64::MAX and i64::MIN
\* included, the frame ":<v>\r\n" decodes to Integer(v).
C32_FullRangeIntegers ==
    (IsIntegerFrame /\ ~OutOfRange(input.n)) =>
        \A i \in 1..Len(log) : FirstFull(i) => log[i].res = OkSome(Integer(input.n))

\* C32 witness: the frame of i64::MIN has arrived and decoded to it.
C32_Witness ==
    /\ IsIntegerFrame
    /\ input.n = I64_MIN
    /\ \E i \in 1..Len(log) : FirstFull(i) /\ log[i].res = OkSome(Integer(I64_MIN))

\* A terminal error: an error that is not one of running out of bytes.
Terminal(res) == res.tag = "Err" /\ ~NeedMoreData(res)

\* C33: a field holding a '-' after a digit is a terminal parse error: the
\* '-' is not taken for a sign and no value is returned.
C33_SignPosition ==
    input.kind = "sign" =>
        \A i \in 1..Len(log) :
            /\ Full(i) => Terminal(log[i].res)
            /\ log[i].res.tag # "Some"

\* C34: a length or integer field with no digit, with or without a sign, is
\* a terminal error and is never decoded as a value.
C34_EmptyFieldsRejected ==
    input.kind = "empty" =>
        \A i \in 1..Len(log) :
            /\ Full(i) => Terminal(log[i].res)
            /\ log[i].res.tag # "Some"

INVALID_TYPE_MARKER == "InvalidFormat:Invalid type marker"

\* C35: when the byte where a value starts, at the top level or as an array
\* element, is none of '+', '-', ':', '$', '*', every try_parse made once the
\* byte has arrived fails with the invalid type marker error; and a call
\* entered in state Index at such a byte fails with it.
C35_InvalidPrefix ==
    /\ [](input.kind = "prefix" =>
            \A i \in 1..Len(log) :
                /\ (\E pre \in {<<>>, ArrayOfOne} :
                        /\ log[i].fed > Len(pre)
                        /\ SubSeq(input.wire, 1, Len(pre)) = pre
                        /\ input.wire[Len(pre) + 1] \in BadMarkers)
                    => log[i].res = Err(INVALID_TYPE_MARKER)
                /\ log[i].res.tag # "Some")
    /\ [][(Calls /\ parser.state.k = "Index"
            /\ parser.state.pos < Len(parser.buffer)
            /\ parser.buffer[parser.state.pos + 1]
                    \notin {PLUS, MINUS, COLON, DOLLAR, STAR}) =>
          log'[Len(log')].res = Err(INVALID_TYPE_MARKER)]_vars

\* C35 witness: the element of an array starts with 'x' and the call made
\* once it arrived failed with the invalid type marker error.
C35_Witness ==
    /\ input.kind = "prefix"
    /\ Len(input.wire) > Len(ArrayOfOne)
    /\ SubSeq(input.wire, 1, Len(ArrayOfOne) + 1) = ArrayOfOne \o <<120>>
    /\ \E i \in 1..Len(log) :
            log[i].fed > Len(ArrayOfOne) /\ log[i].res = Err(INVALID_TYPE_MARKER)

\* ------------------------------------------------------------ batch claims
\* C36: the pending batch never holds more than MAX_BATCH_SIZE commands, and
\* whenever the task is at the socket read the batch and the scratch write
\* buffer are empty, nothing is executing, and every command pushed so far
\* has its response written.
C36_BatchDiscipline ==
    /\ Len(batch) <= MAX_BATCH_SIZE
    /\ pc = "read" =>
            /\ batch = <<>>
            /\ write_buf = <<>>
            /\ futures = <<>>
            /\ Len(written) = Len(submitted)

\* C36 witness: three commands arrived in one read; the batch filled up and
\* was executed inside the parse loop, the third command was executed at the
\* loop's end, and the task is back at the read with all three answered.
C36_Witness ==
    /\ pc = "read"
    /\ Len(submitted) = MAX_BATCH_SIZE + 1
    /\ Len(written) = MAX_BATCH_SIZE + 1
    /\ batch = <<>>
    /\ write_buf = <<>>

\* The place among the submitted commands of position i of the batch being
\* executed.
PlaceOf(i) == Len(submitted) - Len(batch) - Len(futures) + i
HasRun(i) == \E j \in 1..Len(completed) : completed[j] = i

\* C37: the commands of a batch take effect in submission order: a GET of
\* the batch that has run returned what the commands submitted before it, the
\* earlier ones of its own batch included, left under its key: v after
\* SET k v, Null after DEL k.
C37_BatchEffectsInOrder ==
    pc = "exec" =>
        \A i \in 1..Len(futures) :
            (HasRun(i) /\ futures[i].c = "Get") =>
                results[i] = RefGet(SubSeq(submitted, 1, PlaceOf(i) - 1), futures[i].key)

\* C37 witness: SET k v and GET k were executed as one batch and the GET
\* returned v.
C37_Witness ==
    /\ pc = "exec"
    /\ Len(futures) = 2
    /\ futures[1].c = "Set"
    /\ futures[2].c = "Get" /\ futures[2].key = futures[1].key
    /\ completed = <<1, 2>>
    /\ results[2] = BulkString(futures[1].value)

\* C38: shutdown does not lose executed work: a task whose batch has been
\* executed and whose responses await their write does not exit before they
\* are written.
C38_ShutdownKeepsExecutedWork ==
    [][\A c \in Conns : task[c] = "write" => task'[c] # "exited"]_vars

\* C39: after Server::close has run no connection is accepted: no task is
\* spawned once the shutdown message has been sent.
C39_NoAcceptAfterClose ==
    [][shutdown_tx = FALSE => \A c \in Conns : task[c] = "none" => task'[c] = "none"]_vars

\* C39 witness: close has run after a connection was served and while a
\* further client has yet to connect.
C39_Witness ==
    /\ shutdown_tx = FALSE
    /\ listener = "dropped"
    /\ \E c \in Conns : task[c] = "none"
    /\ \E c \in Conns : task[c] = "exited" /\ shutdown_rx[c] > 0

\* C40: after any sequence of put and get on a cache of capacity c >= 1
\* the map holds at most c entries and the queue holds exactly the keys of
\* the map, each once.
C40_LruCapacity ==
    /\ Cardinality(DOMAIN cache.map) <= cache.capacity
    /\ {cache.queue[i] : i \in 1..Len(cache.queue)} = DOMAIN cache.map
    /\ \A i, j \in 1..Len(cache.queue) : cache.queue[i] = cache.queue[j] => i = j

====
